---- MODULE Spec2Model ----
(***************************************************************************)
(* Model of calculate-repo-late-days (src/main.rs): the effective due     *)
(* date, the lateness classifier, the GitLab last-commit resolver and the *)
(* batch loop get_late_days that writes the late-days and no-change files.*)
(*                                                                         *)
(* An instant (chrono DateTime) is a record [secs, offset]: secs is the    *)
(* UTC instant in seconds counted from 2023-01-01T00:00:00Z, offset is the *)
(* UTC offset in seconds of its time zone representation.  Comparison and  *)
(* subtraction of DateTime values work on the instant, as in chrono.       *)
(***************************************************************************)
EXTENDS Integers, Sequences, FiniteSets, TLC

VARIABLES
    pc,                 \* position in get_late_days / in the calculator run
    config,             \* GitLabConfig
    repo_members,       \* Vec<Vec<String>>, the roster
    i,                  \* loop index of get_late_days (0-based)
    j,                  \* 1-based position of the next student to write
    project_name,       \* project_name of the current iteration
    remote,             \* the remote service's answers inside get_last_commit
    last_commit,        \* Option<DateTime<Tz>> returned by get_last_commit
    effective_due_date, \* Option: set once by calculate_effective_due_date
    lateness_in_days,   \* result of calculate_lateness, NoDays outside its scope
    output_file,        \* {group}-{designation}-latedays.csv
    no_change_file,     \* {group}-{designation}-nochange.csv
    stdout,             \* lines printed with println!
    calls,              \* project paths queried on the remote service
    args,               \* env::args(): the command line, program name first
    fs,                 \* the files of the working directory, by name
    reads,              \* the files opened for reading, and by which function
    token               \* Option: the token handed to Gitlab::new

(* the command line and the files read by main *)
env == <<args, fs, reads, token>>

vars == <<pc, config, repo_members, i, j, project_name, remote, last_commit,
          effective_due_date, lateness_in_days, output_file, no_change_file,
          stdout, calls, args, fs, reads, token>>

-----------------------------------------------------------------------------
(* Bounds of the model *)

MaxEntries == 3        \* roster entries
MaxGroup == 2          \* students in one roster entry
MaxLateMins == 3000    \* whole-minute submission offsets after the deadline
MaxEarlyMins == 120    \* whole-minute submission offsets before the deadline
MaxLateDays == 2       \* day boundaries explored second by second
Window == 61           \* seconds explored around each day boundary
MaxTolMins == 180      \* largest tolerance, in minutes
MaxLiveEntries == 2    \* roster entries in the runs checked for termination

-----------------------------------------------------------------------------
(* Program constants *)

DEFAULT_BRANCH_NAME == "main"
MINS_PER_DAY == 60 * 24

(* chrono_tz::Canada::Eastern in 2023: EST until 2023-03-12T07:00:00Z, EDT *)
(* until 2023-11-05T06:00:00Z, EST afterwards.                             *)
EST == -5 * 3600
EDT == -4 * 3600
DST_START == 70 * 86400 + 7 * 3600
DST_END == 308 * 86400 + 6 * 3600

EasternOffset(secs) ==
    IF secs >= DST_START /\ secs < DST_END THEN EDT ELSE EST

(* A DateTime<Tz> in Canada/Eastern at the UTC instant secs. *)
Eastern(secs) == [secs |-> secs, offset |-> EasternOffset(secs)]

(* The wall-clock reading of a DateTime, in seconds. *)
naive_local(dt) == dt.secs + dt.offset

(* Option<T> *)
None == [tag |-> "None"]
Some(v) == [tag |-> "Some", val |-> v]

(* lateness_in_days where the local is not in scope: no count of days *)
NoDays == 0 - 1

-----------------------------------------------------------------------------
(* Pure functions *)

(* DateTime::with_timezone(&Eastern): same instant, Eastern representation. *)
with_timezone_Eastern(dt) == [secs |-> dt.secs, offset |-> EasternOffset(dt.secs)]

(* mutant: the minutes are rounded to the nearest minute *)
num_minutes_rounded(diff_secs) == (diff_secs + 30) \div 60

(* chrono Duration::num_minutes: whole minutes, truncated toward zero. *)
num_minutes(diff_secs) ==
    IF diff_secs >= 0 THEN diff_secs \div 60 ELSE -((-diff_secs) \div 60)

(* mutant: the tolerance is subtracted (checked_sub_signed) *)
calculate_effective_due_date_sub(due_date_time, tolerance) ==
    Eastern(due_date_time.secs - tolerance)

(* tolerance is a std Duration, here in whole seconds *)
calculate_effective_due_date(due_date_time, tolerance) ==
    Eastern(due_date_time.secs + tolerance)

(* mutant: lt instead of le, the deadline instant itself is late *)
calculate_lateness_lt(commit, due_date_time) ==
    IF commit.secs < due_date_time.secs
    THEN 0
    ELSE LET diff == num_minutes(commit.secs - due_date_time.secs)
         IN  1 + (diff \div MINS_PER_DAY)

(* mutant: the first late day is not counted *)
calculate_lateness_no_first_day(commit, due_date_time) ==
    IF commit.secs <= due_date_time.secs
    THEN 0
    ELSE LET diff == num_minutes(commit.secs - due_date_time.secs)
         IN  diff \div MINS_PER_DAY

(* mutant: ceil() instead of floor() *)
calculate_lateness_ceil(commit, due_date_time) ==
    IF commit.secs <= due_date_time.secs
    THEN 0
    ELSE LET diff == num_minutes(commit.secs - due_date_time.secs)
         IN  1 + ((diff + MINS_PER_DAY - 1) \div MINS_PER_DAY)

calculate_lateness(commit, due_date_time) ==
    IF commit.secs <= due_date_time.secs
    THEN 0
    ELSE LET diff == num_minutes(commit.secs - due_date_time.secs)
         IN  1 + (diff \div MINS_PER_DAY)

(* mutant: the comparison with the starter commit is inverted *)
get_last_commit_inverted(resp, starter_commit_hash) ==
    IF resp.status # "ok"
    THEN [panic |-> TRUE, warned |-> FALSE, ret |-> None]
    ELSE [panic |-> FALSE,
          warned |-> ~resp.branch.default,
          ret |-> IF resp.branch.commit.id # starter_commit_hash
                  THEN None
                  ELSE Some(with_timezone_Eastern(resp.branch.commit.committed_date))]

(* mutant: a failed query is taken as "no commit" instead of a panic *)
get_last_commit_lenient(resp, starter_commit_hash) ==
    IF resp.status # "ok"
    THEN [panic |-> FALSE, warned |-> FALSE, ret |-> None]
    ELSE [panic |-> FALSE,
          warned |-> ~resp.branch.default,
          ret |-> IF resp.branch.commit.id = starter_commit_hash
                  THEN None
                  ELSE Some(with_timezone_Eastern(resp.branch.commit.committed_date))]

(* mutant: a branch that is not the default one is an error *)
get_last_commit_strict(resp, starter_commit_hash) ==
    IF resp.status # "ok" \/ ~resp.branch.default
    THEN [panic |-> TRUE, warned |-> FALSE, ret |-> None]
    ELSE [panic |-> FALSE,
          warned |-> FALSE,
          ret |-> IF resp.branch.commit.id = starter_commit_hash
                  THEN None
                  ELSE Some(with_timezone_Eastern(resp.branch.commit.committed_date))]

(* resp is the answer of the remote service to the two queries of           *)
(* get_last_commit: status "project_err" when the project query fails,      *)
(* "branch_err" when the branch query fails, otherwise "ok" with the Branch.*)
(* A failed query panics (unwrap).                                          *)
get_last_commit(resp, starter_commit_hash) ==
    IF resp.status # "ok"
    THEN [panic |-> TRUE, warned |-> FALSE, ret |-> None]
    ELSE [panic |-> FALSE,
          warned |-> ~resp.branch.default,
          ret |-> IF resp.branch.commit.id = starter_commit_hash
                  THEN None
                  ELSE Some(with_timezone_Eastern(resp.branch.commit.committed_date))]

(* mutant: the group number is the 0-based index *)
ProjectName_zero_based(cfg, group_or_student, idx) ==
    IF Len(group_or_student) = 1
    THEN cfg.group_name \o "-" \o cfg.designation \o "-" \o group_or_student[1]
    ELSE cfg.group_name \o "-" \o cfg.designation \o "-g" \o ToString(idx)

(* project_name of roster entry idx (0-based) *)
ProjectName(cfg, group_or_student, idx) ==
    IF Len(group_or_student) = 1
    THEN cfg.group_name \o "-" \o cfg.designation \o "-" \o group_or_student[1]
    ELSE cfg.group_name \o "-" \o cfg.designation \o "-g" \o ToString(idx + 1)

(* the path queried on the remote service *)
ProjectPath(group_name, name) == group_name \o "/" \o name

file_line(student, days) == student \o "," \o ToString(days) \o "\n"

no_change_line(student) == student \o "\n"

WarningLine(name) ==
    "Project " \o name \o " uses a different default branch than expected "
        \o DEFAULT_BRANCH_NAME \o "!"

-----------------------------------------------------------------------------
(* Inputs *)

(* a working directory without files *)
NoFiles == [name \in {} |-> <<>>]

(* 2023-01-24 22:05 EST, 2023-01-27 14:30 EST, 2023-03-11 23:59 EST (the    *)
(* last one 121 minutes before the switch to daylight saving time).        *)
DueSet == {Eastern(24 * 86400 + 3 * 3600 + 5 * 60),
           Eastern(26 * 86400 + 19 * 3600 + 30 * 60),
           Eastern(70 * 86400 + 4 * 3600 + 59 * 60)}

TolSet == {0, 59, 15 * 60, 60 * MaxTolMins}

(* Offsets of the submission from due + tolerance, in seconds: every whole  *)
(* minute of the range, and every second around each day boundary.         *)
SubmitOffsets ==
    {60 * m : m \in (0 - MaxEarlyMins)..MaxLateMins}
        \cup {k * 86400 + d : k \in 0..MaxLateDays, d \in (0 - Window)..Window}

TestConfig ==
    [designation |-> "a1",
     starter_commit_hash |-> "79ca81e76a65ff5009596c6e60b99ad0",
     group_name |-> "ece459",
     due_date_time |-> Eastern(26 * 86400 + 19 * 3600 + 30 * 60),
     tolerance |-> 15 * 60]

StudentList == <<"alice", "bob", "carol">>

(* Roster entries: a single student, or a group made of the first two or    *)
(* more students of StudentList, at most MaxGroup of them.                  *)
Entries ==
    {<<StudentList[1]>>, <<StudentList[2]>>}
        \cup {SubSeq(StudentList, 1, n) :
                 n \in {m \in 2..Len(StudentList) : m <= MaxGroup}}

Rosters == UNION {[1..n -> Entries] : n \in 0..MaxEntries}

CommitIds == {TestConfig.starter_commit_hash, "9f2a41c07b5c3cc8be40ee161ae89a06"}

(* Commit instants relative to the test deadline: after the nominal due     *)
(* date but inside the tolerance, exactly at due + tolerance, and one       *)
(* second after it.                                                         *)
CommitSecs ==
    LET eff == TestConfig.due_date_time.secs + TestConfig.tolerance
    IN  {TestConfig.due_date_time.secs + 60, eff, eff + 1}

FixedOffsets == {0, EST}

NoBranch == [tag |-> "NoBranch"]

NoResponse == [status |-> "none", branch |-> NoBranch]

Branches ==
    [default : BOOLEAN,
     commit : [id : CommitIds,
               committed_date : [secs : CommitSecs, offset : FixedOffsets]]]

Responses ==
    {[status |-> "project_err", branch |-> NoBranch],
     [status |-> "branch_err", branch |-> NoBranch]}
        \cup {[status |-> "ok", branch |-> b] : b \in Branches}

-----------------------------------------------------------------------------
(* The calculator run: calculate_effective_due_date, then calculate_lateness *)

InitCalc ==
    /\ pc = "calc_eff"
    /\ \E due \in DueSet, tol \in TolSet :
          /\ config = [TestConfig EXCEPT !.due_date_time = due, !.tolerance = tol]
          /\ \E off \in SubmitOffsets :
                last_commit = Some(Eastern(due.secs + tol + off))
    /\ repo_members = <<>>
    /\ i = 0
    /\ j = 0
    /\ project_name = ""
    /\ remote = NoResponse
    /\ effective_due_date = None
    /\ lateness_in_days = NoDays
    /\ output_file = None
    /\ no_change_file = None
    /\ stdout = <<>>
    /\ calls = <<>>
    /\ args = <<>>
    /\ fs = NoFiles
    /\ reads = <<>>
    /\ token = None

CalcEffectiveDueDate ==
    /\ pc = "calc_eff"
    /\ effective_due_date' =
          Some(calculate_effective_due_date(config.due_date_time, config.tolerance))
    /\ pc' = "calc_late"
    /\ UNCHANGED <<config, repo_members, i, j, project_name, remote, last_commit,
                   lateness_in_days, output_file, no_change_file, stdout, calls>>
    /\ UNCHANGED env

CalcLateness ==
    /\ pc = "calc_late"
    /\ lateness_in_days' = calculate_lateness(last_commit.val, effective_due_date.val)
    /\ pc' = "calc_done"
    /\ UNCHANGED <<config, repo_members, i, j, project_name, remote, last_commit,
                   effective_due_date, output_file, no_change_file, stdout, calls>>
    /\ UNCHANGED env

NextCalc == CalcEffectiveDueDate \/ CalcLateness

SpecCalc == InitCalc /\ [][NextCalc]_vars

-----------------------------------------------------------------------------
(* get_late_days *)

Init ==
    /\ pc = "start"
    /\ config = TestConfig
    /\ repo_members \in Rosters
    /\ i = 0
    /\ j = 0
    /\ project_name = ""
    /\ remote = NoResponse
    /\ last_commit = None
    /\ effective_due_date = None
    /\ lateness_in_days = NoDays
    /\ output_file = None
    /\ no_change_file = None
    /\ stdout = <<>>
    /\ calls = <<>>
    /\ args = <<>>
    /\ fs = NoFiles
    /\ reads = <<>>
    /\ token = None

(* lines 91-95: both files are created (empty), the deadline is computed *)
Start ==
    /\ pc = "start"
    /\ output_file' = Some(<<>>)
    /\ no_change_file' = Some(<<>>)
    /\ effective_due_date' =
          Some(calculate_effective_due_date(config.due_date_time, config.tolerance))
    /\ i' = 0
    /\ pc' = "loop"
    /\ UNCHANGED <<config, repo_members, j, project_name, remote, last_commit,
                   lateness_in_days, stdout, calls>>
    /\ UNCHANGED env

(* lines 97-110: next roster entry, its project name; the locals of the     *)
(* previous iteration are gone                                              *)
LoopHead ==
    /\ pc = "loop"
    /\ i < Len(repo_members)
    /\ LET group_or_student == repo_members[i + 1]
           name == ProjectName(config, group_or_student, i)
       IN  /\ project_name' = name
           /\ stdout' = Append(stdout,
                  "Calculating late days for project " \o name \o "...")
    /\ last_commit' = None
    /\ lateness_in_days' = NoDays
    /\ pc' = "call"
    /\ UNCHANGED <<config, repo_members, i, j, remote, effective_due_date,
                   output_file, no_change_file, calls>>
    /\ UNCHANGED env

(* line 97: the range is exhausted, get_late_days returns *)
LoopExit ==
    /\ pc = "loop"
    /\ i >= Len(repo_members)
    /\ project_name' = ""
    /\ last_commit' = None
    /\ lateness_in_days' = NoDays
    /\ pc' = "done"
    /\ UNCHANGED <<config, repo_members, i, j, remote, effective_due_date,
                   output_file, no_change_file, stdout, calls>>
    /\ UNCHANGED env

(* mutant: a failed query is tried again *)
GetLastCommit_retry ==
    /\ pc = "call"
    /\ \E resp \in Responses :
          LET r == get_last_commit(resp, config.starter_commit_hash)
          IN  /\ calls' = Append(calls, ProjectPath(config.group_name, project_name))
              /\ remote' = IF r.panic THEN NoResponse ELSE resp
              /\ last_commit' = r.ret
              /\ stdout' = IF r.warned
                           THEN Append(stdout, WarningLine(project_name))
                           ELSE stdout
              /\ pc' = IF r.panic THEN "call" ELSE "returned"
    /\ UNCHANGED <<config, repo_members, i, j, project_name, effective_due_date,
                   lateness_in_days, output_file, no_change_file>>
    /\ UNCHANGED env

(* lines 111-116 and 148-178: the call of get_last_commit; the remote       *)
(* service answers with any response.  A failed query panics (unwrap).      *)
GetLastCommit ==
    /\ pc = "call"
    /\ \E resp \in Responses :
          LET r == get_last_commit(resp, config.starter_commit_hash)
          IN  /\ calls' = Append(calls, ProjectPath(config.group_name, project_name))
              /\ remote' = resp
              /\ last_commit' = r.ret
              /\ stdout' = IF r.warned
                           THEN Append(stdout, WarningLine(project_name))
                           ELSE stdout
              /\ pc' = IF r.panic THEN "panicked" ELSE "returned"
    /\ UNCHANGED <<config, repo_members, i, j, project_name, effective_due_date,
                   lateness_in_days, output_file, no_change_file>>
    /\ UNCHANGED env

(* lines 117-118: the project is unchanged since the starter commit *)
NoChange ==
    /\ pc = "returned"
    /\ last_commit = None
    /\ stdout' = Append(stdout, "Project " \o project_name
                     \o " has not been changed since the starter commit hash.")
    /\ remote' = NoResponse
    /\ j' = 1
    /\ pc' = "write_no_change"
    /\ UNCHANGED <<config, repo_members, i, project_name, last_commit,
                   effective_due_date, lateness_in_days, output_file,
                   no_change_file, calls>>
    /\ UNCHANGED env

(* mutant: the late days are counted from the nominal due date *)
Lateness_nominal_due ==
    /\ pc = "returned"
    /\ last_commit # None
    /\ LET days == calculate_lateness(last_commit.val, config.due_date_time)
       IN  /\ lateness_in_days' = days
           /\ stdout' = Append(stdout, "Project " \o project_name
                  \o " is submitted " \o ToString(days) \o " day(s) late.")
    /\ remote' = NoResponse
    /\ j' = 1
    /\ pc' = "write_late"
    /\ UNCHANGED <<config, repo_members, i, project_name, last_commit,
                   effective_due_date, output_file, no_change_file, calls>>
    /\ UNCHANGED env

(* lines 125-126: the late days of a changed project *)
Lateness ==
    /\ pc = "returned"
    /\ last_commit # None
    /\ LET days == calculate_lateness(last_commit.val, effective_due_date.val)
       IN  /\ lateness_in_days' = days
           /\ stdout' = Append(stdout, "Project " \o project_name
                  \o " is submitted " \o ToString(days) \o " day(s) late.")
    /\ remote' = NoResponse
    /\ j' = 1
    /\ pc' = "write_late"
    /\ UNCHANGED <<config, repo_members, i, project_name, last_commit,
                   effective_due_date, output_file, no_change_file, calls>>
    /\ UNCHANGED env

(* A record of a file: the line written, and the roster entry and the       *)
(* position in the entry it was written for.                                *)
Record(line, entry, member) == [line |-> line, entry |-> entry, member |-> member]

(* the end of one iteration of the for loop *)
EndOfIteration ==
    /\ i' = i + 1
    /\ j' = 0
    /\ pc' = "loop"
    /\ UNCHANGED <<project_name, last_commit, lateness_in_days>>

(* mutant: an unchanged project is also listed in the late-days file *)
WriteNoChange_also_late ==
    /\ pc = "write_no_change"
    /\ LET group_or_student == repo_members[i + 1]
       IN  /\ j <= Len(group_or_student)
           /\ no_change_file' = Some(Append(no_change_file.val,
                  Record(no_change_line(group_or_student[j]), i, j)))
           /\ output_file' = Some(Append(output_file.val,
                  Record(file_line(group_or_student[j], 0), i, j)))
           /\ IF j < Len(group_or_student)
              THEN /\ j' = j + 1
                   /\ UNCHANGED <<pc, i, project_name, last_commit, lateness_in_days>>
              ELSE EndOfIteration
    /\ UNCHANGED <<config, repo_members, remote, effective_due_date, stdout, calls>>
    /\ UNCHANGED env

(* mutant: the no-change line goes to the late-days file *)
WriteNoChange_wrong_file ==
    /\ pc = "write_no_change"
    /\ LET group_or_student == repo_members[i + 1]
       IN  /\ j <= Len(group_or_student)
           /\ output_file' = Some(Append(output_file.val,
                  Record(no_change_line(group_or_student[j]), i, j)))
           /\ IF j < Len(group_or_student)
              THEN /\ j' = j + 1
                   /\ UNCHANGED <<pc, i, project_name, last_commit, lateness_in_days>>
              ELSE EndOfIteration
    /\ UNCHANGED <<config, repo_members, remote, effective_due_date, no_change_file,
                   stdout, calls>>
    /\ UNCHANGED env

(* lines 119-123: one line of the no-change file *)
WriteNoChange ==
    /\ pc = "write_no_change"
    /\ LET group_or_student == repo_members[i + 1]
       IN  /\ j <= Len(group_or_student)
           /\ no_change_file' = Some(Append(no_change_file.val,
                  Record(no_change_line(group_or_student[j]), i, j)))
           /\ IF j < Len(group_or_student)
              THEN /\ j' = j + 1
                   /\ UNCHANGED <<pc, i, project_name, last_commit, lateness_in_days>>
              ELSE EndOfIteration
    /\ UNCHANGED <<config, repo_members, remote, effective_due_date, output_file,
                   stdout, calls>>
    /\ UNCHANGED env

(* mutant: each write replaces the content of the file *)
WriteLate_overwrite ==
    /\ pc = "write_late"
    /\ LET group_or_student == repo_members[i + 1]
       IN  /\ j <= Len(group_or_student)
           /\ output_file' = Some(<<Record(file_line(group_or_student[j],
                                                     lateness_in_days), i, j)>>)
           /\ IF j < Len(group_or_student)
              THEN /\ j' = j + 1
                   /\ UNCHANGED <<pc, i, project_name, last_commit, lateness_in_days>>
              ELSE EndOfIteration
    /\ UNCHANGED <<config, repo_members, remote, effective_due_date,
                   no_change_file, stdout, calls>>
    /\ UNCHANGED env

(* mutant: the iteration ends after the line of the first student *)
WriteLate_first_only ==
    /\ pc = "write_late"
    /\ LET group_or_student == repo_members[i + 1]
       IN  /\ j <= Len(group_or_student)
           /\ output_file' = Some(Append(output_file.val,
                  Record(file_line(group_or_student[j], lateness_in_days), i, j)))
           /\ EndOfIteration
    /\ UNCHANGED <<config, repo_members, remote, effective_due_date,
                   no_change_file, stdout, calls>>
    /\ UNCHANGED env

(* lines 127-130: one line of the late-days file *)
WriteLate ==
    /\ pc = "write_late"
    /\ LET group_or_student == repo_members[i + 1]
       IN  /\ j <= Len(group_or_student)
           /\ output_file' = Some(Append(output_file.val,
                  Record(file_line(group_or_student[j], lateness_in_days), i, j)))
           /\ IF j < Len(group_or_student)
              THEN /\ j' = j + 1
                   /\ UNCHANGED <<pc, i, project_name, last_commit, lateness_in_days>>
              ELSE EndOfIteration
    /\ UNCHANGED <<config, repo_members, remote, effective_due_date,
                   no_change_file, stdout, calls>>
    /\ UNCHANGED env

Next ==
    \/ Start
    \/ LoopHead
    \/ LoopExit
    \/ GetLastCommit
    \/ NoChange
    \/ Lateness
    \/ WriteNoChange
    \/ WriteLate

Spec == Init /\ [][Next]_vars

-----------------------------------------------------------------------------
(* main: the command line, build_config, the roster file, the token file *)

(* args.get(k).unwrap(): the k-th argument, counted from 0 *)
Arg(a, k) == a[k + 1]

(* the character of s at position k, counted from 1 *)
CharAt(s, k) == SubSeq(s, k, k)

Digits == "0123456789"

IsDigit(c) == \E k \in 1..Len(Digits) : CharAt(Digits, k) = c

DigitVal(c) == (CHOOSE k \in 1..Len(Digits) : CharAt(Digits, k) = c) - 1

AllDigits(s) == Len(s) > 0 /\ \A k \in 1..Len(s) : IsDigit(CharAt(s, k))

RECURSIVE DigitsValue(_)
DigitsValue(s) ==
    IF Len(s) = 0
    THEN 0
    ELSE 10 * DigitsValue(SubSeq(s, 1, Len(s) - 1)) + DigitVal(CharAt(s, Len(s)))

(* str::parse::<u64>: decimal digits after an optional plus sign, None for  *)
(* an Err (the strings of the model are far below u64::MAX)                 *)
parse_u64(s) ==
    LET digits == IF Len(s) > 0 /\ CharAt(s, 1) = "+" THEN SubSeq(s, 2, Len(s)) ELSE s
    IN  IF AllDigits(digits) THEN Some(DigitsValue(digits)) ELSE None

IsLeap(y) == (y % 4 = 0 /\ y % 100 # 0) \/ y % 400 = 0

DaysInMonth(y, m) ==
    IF m = 2 THEN (IF IsLeap(y) THEN 29 ELSE 28)
    ELSE IF m \in {4, 6, 9, 11} THEN 30 ELSE 31

RECURSIVE DaysBeforeMonth(_, _)
DaysBeforeMonth(y, m) ==
    IF m <= 1 THEN 0 ELSE DaysBeforeMonth(y, m - 1) + DaysInMonth(y, m - 1)

LeapsBefore(y) == ((y - 1) \div 4) - ((y - 1) \div 100) + ((y - 1) \div 400)

(* days from 2023-01-01 to the first day of year y *)
DaysBeforeYear(y) == 365 * (y - 2023) + LeapsBefore(y) - LeapsBefore(2023)

(* NaiveDateTime::parse_from_str(s, DATE_TIME_FORMAT) for the format        *)
(* "%Y-%m-%d %H:%M" with zero-padded fields: the wall-clock seconds since   *)
(* 2023-01-01 00:00, None for an Err                                        *)
parse_from_str(s) ==
    IF \/ Len(s) # 16
       \/ CharAt(s, 5) # "-" \/ CharAt(s, 8) # "-"
       \/ CharAt(s, 11) # " " \/ CharAt(s, 14) # ":"
       \/ ~AllDigits(SubSeq(s, 1, 4)) \/ ~AllDigits(SubSeq(s, 6, 7))
       \/ ~AllDigits(SubSeq(s, 9, 10)) \/ ~AllDigits(SubSeq(s, 12, 13))
       \/ ~AllDigits(SubSeq(s, 15, 16))
    THEN None
    ELSE LET y == DigitsValue(SubSeq(s, 1, 4))
             m == DigitsValue(SubSeq(s, 6, 7))
             d == DigitsValue(SubSeq(s, 9, 10))
             hh == DigitsValue(SubSeq(s, 12, 13))
             mm == DigitsValue(SubSeq(s, 15, 16))
         IN  IF m \in 1..12 /\ d >= 1 /\ d <= DaysInMonth(y, m)
                  /\ hh \in 0..23 /\ mm \in 0..59
             THEN Some((DaysBeforeYear(y) + DaysBeforeMonth(y, m) + d - 1) * 86400
                           + hh * 3600 + mm * 60)
             ELSE None

(* NaiveDateTime::and_local_timezone(Eastern): the instant with this wall   *)
(* clock reading, None when no instant or two instants have it (the hour    *)
(* skipped or repeated at a change of daylight saving time)                 *)
and_local_timezone_Eastern(naive) ==
    LET offsets == {off \in {EST, EDT} : EasternOffset(naive - off) = off}
    IN  IF Cardinality(offsets) = 1
        THEN LET off == CHOOSE o \in offsets : TRUE
             IN  Some([secs |-> naive - off, offset |-> off])
        ELSE None

(* mutant: only too few arguments are refused *)
validate_args_len_at_least(a) == Len(a) >= 8

validate_args_len(a) == Len(a) = 8

(* build_config: panic is TRUE when one of its unwrap() calls panics *)
build_config(a) ==
    LET duration_minutes == parse_u64(Arg(a, 5))
        naive_date_time == parse_from_str(Arg(a, 4))
        due_date == IF naive_date_time = None
                    THEN None
                    ELSE and_local_timezone_Eastern(naive_date_time.val)
    IN  IF duration_minutes = None \/ naive_date_time = None \/ due_date = None
        THEN [panic |-> TRUE, config |-> None]
        ELSE [panic |-> FALSE,
              config |-> [designation |-> Arg(a, 1),
                          starter_commit_hash |-> Arg(a, 2),
                          group_name |-> Arg(a, 3),
                          due_date_time |-> due_date.val,
                          tolerance |-> 60 * duration_minutes.val]]

IsWhitespace(c) == c \in {" ", "\n", "\t", "\r"}

(* str::trim *)
RECURSIVE trim(_)
trim(s) ==
    IF Len(s) = 0 THEN s
    ELSE IF IsWhitespace(CharAt(s, 1)) THEN trim(SubSeq(s, 2, Len(s)))
    ELSE IF IsWhitespace(CharAt(s, Len(s))) THEN trim(SubSeq(s, 1, Len(s) - 1))
    ELSE s

(* str::split(','), each piece trimmed: one line of the roster file *)
RECURSIVE split_line(_)
split_line(line) ==
    LET commas == {k \in 1..Len(line) : CharAt(line, k) = ","}
    IN  IF commas = {}
        THEN <<trim(line)>>
        ELSE LET k == CHOOSE c \in commas : \A o \in commas : c <= o
             IN  <<trim(SubSeq(line, 1, k - 1))>>
                     \o split_line(SubSeq(line, k + 1, Len(line)))

(* parse_csv_file on the lines of the file *)
parse_csv_file(lines) == [n \in 1..Len(lines) |-> split_line(lines[n])]

(* fs::read_to_string: the lines with their line ends *)
RECURSIVE read_to_string(_)
read_to_string(lines) ==
    IF Len(lines) = 0 THEN "" ELSE Head(lines) \o "\n" \o read_to_string(Tail(lines))

(* String::retain(|c| !c.is_whitespace()) *)
RECURSIVE retain_non_whitespace(_)
retain_non_whitespace(s) ==
    IF Len(s) = 0 THEN s
    ELSE IF IsWhitespace(CharAt(s, 1)) THEN retain_non_whitespace(SubSeq(s, 2, Len(s)))
    ELSE CharAt(s, 1) \o retain_non_whitespace(SubSeq(s, 2, Len(s)))

(* read_token_file on the lines of the file *)
read_token_file(lines) == retain_non_whitespace(read_to_string(lines))

(* The command lines of the model.  DocumentedArgs follows the usage       *)
(* message: program, designation, starter commit hash, group name, due     *)
(* date and time, tolerance in minutes, roster file, token file.           *)
DocumentedArgs ==
    <<"late-days", "a1", TestConfig.starter_commit_hash, "ece459",
      "2023-01-27 14:30", "15", "students.csv", "token.git">>

(* due dates that do not parse, the last one an hour skipped by the switch  *)
(* to daylight saving time                                                  *)
BadDates == {"27/01/2023 14:30", "2023-01-27", "2023-02-30 10:00", "2023-03-12 02:30"}

BadTolerances == {"15m", "-15", ""}

ArgVectors ==
    {DocumentedArgs,
     SubSeq(DocumentedArgs, 1, 7),
     DocumentedArgs \o <<"extra">>,
     <<"late-days">>}
        \cup {[DocumentedArgs EXCEPT ![5] = d] : d \in BadDates}
        \cup {[DocumentedArgs EXCEPT ![6] = t] : t \in BadTolerances}
        \cup {[DocumentedArgs EXCEPT ![5] = "2023-01-27", ![6] = "15m"]}

(* The working directories of the model, file name to lines: the two files  *)
(* the command line names, and the same with a file named like the          *)
(* tolerance argument.                                                      *)
DocumentedFiles ==
    ("students.csv" :> <<"alice", "alice, bob">>) @@ ("token.git" :> <<"glpat-1234 ">>)

FileSystems == {DocumentedFiles, DocumentedFiles @@ ("15" :> <<"bob", "alice ,bob">>)}

InitMain ==
    /\ pc = "main"
    /\ args \in ArgVectors
    /\ fs \in FileSystems
    /\ reads = <<>>
    /\ token = None
    /\ config = None
    /\ repo_members = <<>>
    /\ i = 0
    /\ j = 0
    /\ project_name = ""
    /\ remote = NoResponse
    /\ last_commit = None
    /\ effective_due_date = None
    /\ lateness_in_days = NoDays
    /\ output_file = None
    /\ no_change_file = None
    /\ stdout = <<>>
    /\ calls = <<>>

(* lines 45-48 and 59-72 *)
MainValidateArgs ==
    /\ pc = "main"
    /\ IF validate_args_len(args)
       THEN /\ pc' = "build_config"
            /\ UNCHANGED stdout
       ELSE /\ pc' = "exit"
            /\ stdout' = stdout \o <<"Usage: " \o Arg(args, 0), "Example: " \o Arg(args, 0)>>
    /\ UNCHANGED <<config, repo_members, i, j, project_name, remote, last_commit,
                   effective_due_date, lateness_in_days, output_file,
                   no_change_file, calls, args, fs, reads, token>>

(* line 50 *)
MainBuildConfig ==
    /\ pc = "build_config"
    /\ LET r == build_config(args)
       IN  IF r.panic
           THEN /\ pc' = "panicked"
                /\ UNCHANGED config
           ELSE /\ pc' = "parse_csv_file"
                /\ config' = r.config
    /\ UNCHANGED <<repo_members, i, j, project_name, remote, last_commit,
                   effective_due_date, lateness_in_days, output_file,
                   no_change_file, stdout, calls, args, fs, reads, token>>

(* line 51: File::open panics when the file does not exist *)
MainParseCsvFile ==
    /\ pc = "parse_csv_file"
    /\ LET filename == Arg(args, 5)
       IN  /\ reads' = Append(reads, [by |-> "parse_csv_file", path |-> filename])
           /\ IF filename \in DOMAIN fs
              THEN /\ repo_members' = parse_csv_file(fs[filename])
                   /\ pc' = "read_token_file"
              ELSE /\ pc' = "panicked"
                   /\ UNCHANGED repo_members
    /\ UNCHANGED <<config, i, j, project_name, remote, last_commit,
                   effective_due_date, lateness_in_days, output_file,
                   no_change_file, stdout, calls, args, fs, token>>

(* line 53 *)
MainReadTokenFile ==
    /\ pc = "read_token_file"
    /\ LET filename == Arg(args, 6)
       IN  /\ reads' = Append(reads, [by |-> "read_token_file", path |-> filename])
           /\ IF filename \in DOMAIN fs
              THEN /\ token' = Some(read_token_file(fs[filename]))
                   /\ pc' = "gitlab_new"
              ELSE /\ pc' = "panicked"
                   /\ UNCHANGED token
    /\ UNCHANGED <<config, repo_members, i, j, project_name, remote, last_commit,
                   effective_due_date, lateness_in_days, output_file,
                   no_change_file, stdout, calls, args, fs>>

(* lines 54-56: Gitlab::new connects with the token and may fail (unwrap);  *)
(* with a client, get_late_days is called                                   *)
MainGitlabNew ==
    /\ pc = "gitlab_new"
    /\ \E connected \in BOOLEAN :
          pc' = IF connected THEN "start" ELSE "panicked"
    /\ UNCHANGED <<config, repo_members, i, j, project_name, remote, last_commit,
                   effective_due_date, lateness_in_days, output_file,
                   no_change_file, stdout, calls, args, fs, reads, token>>

NextMain ==
    \/ MainValidateArgs
    \/ MainBuildConfig
    \/ MainParseCsvFile
    \/ MainReadTokenFile
    \/ MainGitlabNew
    \/ Next

SpecMain == InitMain /\ [][NextMain]_vars

-----------------------------------------------------------------------------
(* Properties of the calculator run (SpecCalc) *)

(* seconds from the effective deadline to the submission *)
LateSecs == last_commit.val.secs - effective_due_date.val.secs

(* C1: a submission at or before the effective deadline (equality included) *)
(* has 0 late days, and the result is never negative.                       *)
C1_OnTimeIsZero ==
    pc = "calc_done" =>
        /\ lateness_in_days \in Nat
        /\ (last_commit.val.secs <= effective_due_date.val.secs
              => lateness_in_days = 0)

C1_Witness ==
    /\ pc = "calc_done"
    /\ last_commit.val.secs = effective_due_date.val.secs
    /\ lateness_in_days = 0

(* C2: a submission strictly after the effective deadline has d late days,  *)
(* d >= 1, where d - 1 full days of 1440 minutes have passed since the      *)
(* deadline and d full days have not: 1 minute late is 1, 1439 minutes late *)
(* is 1, 1440 minutes late is 2.                                            *)
C2_LateDays ==
    (pc = "calc_done" /\ LateSecs > 0) =>
        /\ lateness_in_days >= 1
        /\ (lateness_in_days - 1) * 1440 * 60 <= LateSecs
        /\ LateSecs < lateness_in_days * 1440 * 60
        /\ (LateSecs = 1 * 60 => lateness_in_days = 1)
        /\ (LateSecs = 1439 * 60 => lateness_in_days = 1)
        /\ (LateSecs = 1440 * 60 => lateness_in_days = 2)

C2_Witness ==
    /\ pc = "calc_done"
    /\ LateSecs = 1440 * 60
    /\ lateness_in_days = 2

(* C3 as stated: a submission 2875 minutes after the effective deadline has *)
(* 3 late days.                                                             *)
C3_Original ==
    (pc = "calc_done" /\ LateSecs = 2875 * 60) => lateness_in_days = 3

(* C3, amended: a submission 2875 minutes after the effective deadline has  *)
(* 2 late days; the third late day starts 2880 minutes after the deadline   *)
(* (the example of the tests, 2985 minutes late, has 3).                    *)
C3_Amended ==
    pc = "calc_done" =>
        /\ (LateSecs = 2875 * 60 => lateness_in_days = 2)
        /\ (LateSecs = 2880 * 60 => lateness_in_days = 3)
        /\ (LateSecs = 2985 * 60 => lateness_in_days = 3)

C3_Witness ==
    /\ pc = "calc_done"
    /\ LateSecs = 2875 * 60
    /\ lateness_in_days = 2

(* C4: the effective due date is the instant due + tolerance; with          *)
(* tolerance 0 it is the due date itself, and 2023-01-27 14:30 with a       *)
(* tolerance of 15 minutes gives 2023-01-27 14:45 on the clock.             *)
C4_EffectiveDueDate ==
    pc \in {"calc_late", "calc_done"} =>
        /\ effective_due_date.val.secs = config.due_date_time.secs + config.tolerance
        /\ (config.tolerance = 0 => effective_due_date.val = config.due_date_time)
        /\ ((naive_local(config.due_date_time) = 26 * 86400 + 14 * 3600 + 30 * 60
              /\ config.tolerance = 15 * 60)
            => naive_local(effective_due_date.val) = 26 * 86400 + 14 * 3600 + 45 * 60)

C4_Witness ==
    /\ pc = "calc_late"
    /\ naive_local(config.due_date_time) = 26 * 86400 + 14 * 3600 + 30 * 60
    /\ config.tolerance = 15 * 60
    /\ naive_local(effective_due_date.val) = 26 * 86400 + 14 * 3600 + 45 * 60

-----------------------------------------------------------------------------
(* Properties of get_late_days (Spec) *)

(* the records of a file, none before it is created *)
FileRecords(f) == IF f = None THEN <<>> ELSE f.val

(* the records written for roster entry e (0-based) *)
RecordsOf(f, e) == SelectSeq(FileRecords(f), LAMBDA r : r.entry = e)

IsPrefix(s, t) == Len(s) <= Len(t) /\ SubSeq(t, 1, Len(s)) = s

(* C5: get_last_commit returns None exactly when the head commit of the     *)
(* queried branch is the starter commit, whatever its timestamp; otherwise  *)
(* it returns the instant of that commit, in the Eastern time zone.         *)
C5_Resolver ==
    (pc = "returned" /\ remote.status = "ok") =>
        LET commit == remote.branch.commit
        IN  /\ (last_commit = None <=> commit.id = config.starter_commit_hash)
            /\ (commit.id # config.starter_commit_hash =>
                  /\ last_commit.tag = "Some"
                  /\ last_commit.val.secs = commit.committed_date.secs
                  /\ last_commit.val.offset \in {EST, EDT})

C5_Witness ==
    /\ pc = "returned"
    /\ remote.status = "ok"
    /\ remote.branch.commit.id = config.starter_commit_hash
    /\ remote.branch.commit.committed_date.secs > effective_due_date.val.secs
    /\ last_commit = None

(* C6: the k-th query (1-based) is for {group}/{group}-{designation}-       *)
(* {student} when roster entry k has one student and for                    *)
(* {group}/{group}-{designation}-g{k} when it has more, k counting every    *)
(* roster entry.                                                            *)
C6_ProjectNames ==
    /\ \A k \in 1..Len(calls) :
          LET entry == repo_members[k]
              prefix == config.group_name \o "/" \o config.group_name \o "-"
                            \o config.designation \o "-"
          IN  calls[k] = IF Len(entry) = 1
                         THEN prefix \o entry[1]
                         ELSE prefix \o "g" \o ToString(k)
    /\ (Len(calls) >= 3 /\ Len(repo_members[3]) >= 2)
          => calls[3] = "ece459/ece459-a1-g3"
    /\ (Len(calls) >= 1 /\ repo_members[1] = <<"alice">>)
          => calls[1] = "ece459/ece459-a1-alice"

C6_Witness ==
    /\ Len(calls) = 3
    /\ Len(repo_members[1]) = 1
    /\ Len(repo_members[2]) = 1
    /\ Len(repo_members[3]) = 2
    /\ calls[3] = "ece459/ece459-a1-g3"

(* C7: while the records of a roster entry are written and when they are    *)
(* all written: after None (unchanged) the no-change file has one line      *)
(* {student} per student written so far and the late-days file has no       *)
(* record of the entry; after Some(ts) the late-days file has one line      *)
(* {student},{days} per student written so far, all with the same days, and *)
(* the no-change file has no record of the entry.                           *)
C7_Routing ==
    (pc \in {"write_no_change", "write_late"} \/ (pc = "loop" /\ i > 0)) =>
        LET e == IF pc = "loop" THEN i - 1 ELSE i
            group_or_student == repo_members[e + 1]
            n == IF pc = "loop" THEN Len(group_or_student) ELSE j - 1
            late == RecordsOf(output_file, e)
            unchanged == RecordsOf(no_change_file, e)
        IN  IF last_commit = None
            THEN /\ late = <<>>
                 /\ Len(unchanged) = n
                 /\ \A k \in 1..n : unchanged[k].line = group_or_student[k] \o "\n"
            ELSE /\ unchanged = <<>>
                 /\ Len(late) = n
                 /\ lateness_in_days \in Nat
                 /\ \A k \in 1..n :
                       late[k].line = group_or_student[k] \o ","
                                          \o ToString(lateness_in_days) \o "\n"

C7_Witness ==
    /\ pc = "loop"
    /\ i = 2
    /\ last_commit # None
    /\ Len(repo_members[1]) = 2
    /\ Len(repo_members[2]) = 2
    /\ Len(RecordsOf(no_change_file, 0)) = 2
    /\ Len(RecordsOf(output_file, 1)) = 2

(* the records of a file are in roster order, and inside one roster entry   *)
(* in the order of its students                                             *)
InRosterOrder(records) ==
    /\ \A a, b \in 1..Len(records) :
          a < b => \/ records[a].entry < records[b].entry
                   \/ /\ records[a].entry = records[b].entry
                      /\ records[a].member < records[b].member
    /\ \A a \in 1..Len(records) :
          LET student == repo_members[records[a].entry + 1][records[a].member]
          IN  SubSeq(records[a].line, 1, Len(student)) = student

(* C8: every step only appends to the late-days file and to the no-change   *)
(* file, and each file lists its records in roster entry order and, inside  *)
(* one entry, in the order of the students of the entry.                    *)
C8_AppendOnlyOrdered ==
    [][/\ IsPrefix(FileRecords(output_file), FileRecords(output_file'))
       /\ IsPrefix(FileRecords(no_change_file), FileRecords(no_change_file'))
       /\ InRosterOrder(FileRecords(output_file'))
       /\ InRosterOrder(FileRecords(no_change_file'))]_vars

C8_Witness ==
    /\ pc = "done"
    /\ Len(FileRecords(output_file)) = 3
    /\ FileRecords(output_file)[1].entry = 0
    /\ FileRecords(output_file)[3].entry = 2
    /\ FileRecords(output_file)[3].member = 2
    /\ Len(FileRecords(no_change_file)) = 1

(* C9: when a query of the resolver fails on roster entry k the run is over *)
(* there: no step follows, no record of entry k or of a later entry is in   *)
(* either file, and the failed call is the last call.                       *)
C9_FailFast ==
    remote.status \in {"project_err", "branch_err"} =>
        /\ pc = "panicked"
        /\ ~ENABLED Next
        /\ Len(calls) = i + 1
        /\ \A k \in 1..Len(FileRecords(output_file)) :
              FileRecords(output_file)[k].entry < i
        /\ \A k \in 1..Len(FileRecords(no_change_file)) :
              FileRecords(no_change_file)[k].entry < i

C9_Witness ==
    /\ pc = "panicked"
    /\ remote.status = "branch_err"
    /\ i = 1
    /\ Len(repo_members) = 3
    /\ Len(calls) = 2
    /\ Len(FileRecords(output_file)) = 1
    /\ FileRecords(no_change_file) = <<>>

(* C10: when the queried branch is not flagged as default, get_last_commit  *)
(* prints the warning and returns (no panic) what the head commit of that   *)
(* branch decides: None for the starter commit, its instant otherwise.      *)
C10_DefaultBranchMismatch ==
    (remote.status = "ok" /\ ~remote.branch.default) =>
        /\ pc = "returned"
        /\ stdout[Len(stdout)] = "Project " \o project_name
               \o " uses a different default branch than expected main!"
        /\ IF remote.branch.commit.id = config.starter_commit_hash
           THEN last_commit = None
           ELSE /\ last_commit.tag = "Some"
                /\ last_commit.val.secs = remote.branch.commit.committed_date.secs

(* the run went on after a warning for the first roster entry, to the end *)
C10_Witness ==
    /\ pc = "done"
    /\ Len(repo_members) = 2
    /\ Len(calls) = 2
    /\ repo_members[1] = <<"alice">>
    /\ stdout[2] = "Project ece459-a1-alice uses a different default branch than expected main!"
    /\ Len(FileRecords(output_file)) + Len(FileRecords(no_change_file)) = 2

-----------------------------------------------------------------------------
(* Properties of main (SpecMain) *)

(* the command line has a configuration error *)
ConfigurationError ==
    \/ Len(args) # 8
    \/ Arg(args, 4) \in BadDates
    \/ Arg(args, 5) \in BadTolerances

(* C11: with a configuration error (an argument count other than 8, a due   *)
(* date that does not parse, a tolerance that is not a number) the process  *)
(* stops in main or in build_config: neither output file is ever created,   *)
(* no file is read and no query is sent to the remote service.              *)
C11_NoOutputOnConfigurationError ==
    ConfigurationError =>
        /\ pc \in {"main", "build_config", "exit", "panicked"}
        /\ (Len(args) # 8 => pc \in {"main", "exit"})
        /\ output_file = None
        /\ no_change_file = None
        /\ calls = <<>>
        /\ reads = <<>>

C11_Witness ==
    /\ pc = "panicked"
    /\ Len(args) = 8
    /\ Arg(args, 4) = "2023-01-27 14:30"
    /\ Arg(args, 5) = "15m"
    /\ "15" \in DOMAIN fs
    /\ output_file = None
    /\ no_change_file = None
    /\ calls = <<>>

(* C12: with the 8 arguments in the documented order, build_config takes    *)
(* the due date from position 4 and the tolerance from position 5, the      *)
(* roster is read from the file named at position 6 and the token from the  *)
(* file named at position 7.                                                *)
C12_DocumentedPositions ==
    args = DocumentedArgs =>
        /\ (config # None =>
              /\ config.designation = "a1"
              /\ config.group_name = "ece459"
              /\ config.due_date_time = Eastern(26 * 86400 + 19 * 3600 + 30 * 60)
              /\ config.tolerance = 15 * 60)
        /\ \A k \in 1..Len(reads) :
              /\ (reads[k].by = "parse_csv_file" => reads[k].path = "students.csv")
              /\ (reads[k].by = "read_token_file" => reads[k].path = "token.git")

-----------------------------------------------------------------------------
(* Further properties of get_late_days (Spec) *)

(* C13: once computed, the effective due date is due + tolerance and stays  *)
(* the same; every entry with a commit at ts has the late days of ts        *)
(* against it, and with ts at or before due + tolerance, after the nominal  *)
(* due date and at due + tolerance included, its lines are {student},0.     *)
C13_OneEffectiveDeadline ==
    /\ effective_due_date # None =>
          effective_due_date.val.secs = config.due_date_time.secs + config.tolerance
    /\ (last_commit # None /\ (pc = "write_late" \/ (pc = "loop" /\ i > 0))) =>
          LET e == IF pc = "loop" THEN i - 1 ELSE i
              late == last_commit.val.secs
                          - (config.due_date_time.secs + config.tolerance)
              written == RecordsOf(output_file, e)
          IN  /\ lateness_in_days = IF late <= 0 THEN 0 ELSE 1 + (late \div 86400)
              /\ late <= 0 =>
                    \A k \in 1..Len(written) :
                       written[k].line = repo_members[e + 1][k] \o ",0\n"

C13_Witness ==
    /\ pc = "loop"
    /\ i = 2
    /\ last_commit # None
    /\ last_commit.val.secs = config.due_date_time.secs + config.tolerance
    /\ repo_members[1] = <<"alice">>
    /\ repo_members[2] = <<"alice", "bob">>
    /\ Len(FileRecords(output_file)) = 3
    /\ FileRecords(output_file)[1].line = "alice,0\n"
    /\ FileRecords(output_file)[3].line = "bob,0\n"

(* the number of records written for roster entry e, in both files *)
WrittenFor(e) == Len(RecordsOf(output_file, e)) + Len(RecordsOf(no_change_file, e))

(* C14: the remote service is queried once per roster entry, in roster      *)
(* order: the k-th query is made in iteration k.  The records of an entry   *)
(* are written after its query, and they are all written before the query   *)
(* of the next entry; a run without failed query ends with one query per    *)
(* entry.                                                                   *)
C14_OneCallPerEntry ==
    /\ Len(calls) = IF pc \in {"returned", "write_no_change", "write_late", "panicked"}
                    THEN i + 1
                    ELSE i
    /\ \A k \in 1..Len(FileRecords(output_file)) :
          FileRecords(output_file)[k].entry < Len(calls)
    /\ \A k \in 1..Len(FileRecords(no_change_file)) :
          FileRecords(no_change_file)[k].entry < Len(calls)
    /\ \A e \in 0..(i - 1) : WrittenFor(e) = Len(repo_members[e + 1])
    /\ pc \in {"call", "returned"} => WrittenFor(i) = 0
    /\ pc = "done" => Len(calls) = Len(repo_members)

C14_Witness ==
    /\ pc = "returned"
    /\ i = 1
    /\ Len(calls) = 2
    /\ Len(repo_members) = 3
    /\ Len(repo_members[1]) = 2
    /\ WrittenFor(0) = 2
    /\ WrittenFor(1) = 0

-----------------------------------------------------------------------------
(* Further properties of the calculator run (SpecCalc) *)

(* C15: for a submission any number of seconds after the effective          *)
(* deadline, the late days are 1 + floor(seconds / 86400), the rule applied *)
(* to the exact difference: truncating to whole minutes first loses         *)
(* nothing.  One second late is 1, one second short of 24 hours late is 1.  *)
C15_TruncationIsExact ==
    (pc = "calc_done" /\ LateSecs > 0) =>
        /\ lateness_in_days = 1 + (LateSecs \div 86400)
        /\ (LateSecs = 1 => lateness_in_days = 1)
        /\ (LateSecs = 86400 - 1 => lateness_in_days = 1)

C15_Witness ==
    /\ pc = "calc_done"
    /\ LateSecs = 86400 - 1
    /\ lateness_in_days = 1

-----------------------------------------------------------------------------
(* The files after a run of get_late_days (Spec) *)

(* the number of student identifiers of a roster *)
RECURSIVE TotalStudents(_)
TotalStudents(roster) ==
    IF roster = <<>> THEN 0 ELSE Len(Head(roster)) + TotalStudents(Tail(roster))

(* the positions of a file with the record of student k of entry e *)
PositionsOf(f, e, k) ==
    {n \in 1..Len(FileRecords(f)) :
        FileRecords(f)[n].entry = e /\ FileRecords(f)[n].member = k}

(* C16: when get_late_days returns, every student of every roster entry has *)
(* exactly one record, in exactly one of the two files, and the files hold  *)
(* nothing else: their records are as many as the student identifiers of    *)
(* the roster, none for an empty roster.                                    *)
C16_FilesPartitionRoster ==
    pc = "done" =>
        /\ \A e \in 1..Len(repo_members) : \A k \in 1..Len(repo_members[e]) :
              LET late == PositionsOf(output_file, e - 1, k)
                  unchanged == PositionsOf(no_change_file, e - 1, k)
                  student == repo_members[e][k]
              IN  /\ Cardinality(late) + Cardinality(unchanged) = 1
                  /\ \A n \in late :
                        SubSeq(FileRecords(output_file)[n].line, 1, Len(student) + 1)
                            = student \o ","
                  /\ \A n \in unchanged :
                        FileRecords(no_change_file)[n].line = student \o "\n"
        /\ Len(FileRecords(output_file)) + Len(FileRecords(no_change_file))
              = TotalStudents(repo_members)
        /\ (repo_members = <<>> =>
              output_file = Some(<<>>) /\ no_change_file = Some(<<>>))

C16_Witness ==
    /\ pc = "done"
    /\ Len(repo_members) = 3
    /\ TotalStudents(repo_members) = 5
    /\ Len(FileRecords(output_file)) = 3
    /\ Len(FileRecords(no_change_file)) = 2

-----------------------------------------------------------------------------
(* Termination of get_late_days *)

(* The runs of get_late_days over rosters of at most MaxLiveEntries         *)
(* entries.  The program is sequential and every call returns: a step that  *)
(* can be taken is taken.  Every step of Next changes the position.         *)
InitLive == Init /\ Len(repo_members) <= MaxLiveEntries

position == <<pc, i, j>>

SpecLive == InitLive /\ [][Next]_vars /\ WF_position(Next)

(* C17: every run of get_late_days ends, returned or panicked; the loop     *)
(* index never decreases, no step follows the end, no entry is queried      *)
(* twice, a run that returns has gone through every entry and a run that    *)
(* panics stops at the failed query, the first one.                         *)
C17_Terminates ==
    /\ <>(pc \in {"done", "panicked"})
    /\ [][i' >= i /\ pc \notin {"done", "panicked"}]_position
    /\ [](Len(calls) <= i + 1 /\ Len(calls) <= Len(repo_members))
    /\ [](pc = "done" => i = Len(repo_members))
    /\ [](pc = "panicked" =>
            /\ remote.status \in {"project_err", "branch_err"}
            /\ Len(calls) = i + 1)

C17_Witness ==
    /\ pc = "done"
    /\ Len(repo_members) = 2
    /\ i = 2
    /\ Len(calls) = 2

====
